---- MODULE Spec2Model ----
(***************************************************************************)
(* govmap_geoserver.py: bulk download of WFS layers in pages of CHUNK_SIZE *)
(* records, with a shrink-and-retry fetch on timeouts, a per-layer merge   *)
(* of temporary chunk files and a GeoPackage written once per layer.       *)
(*                                                                         *)
(* A record is modelled by its offset in the upstream collection (the feed *)
(* is sorted by objectid, so the offset is the sort key).  Every blocking  *)
(* I/O call (HTTP GET, file read, file write) is one step; its outcome is  *)
(* chosen by the environment.                                              *)
(***************************************************************************)
EXTENDS Integers, Sequences, FiniteSets, TLC

\* ------------------------------------------------------------------ bounds
\* CHUNK_SIZE is 2000 in the source; the model checks a scaled-down page size.
CHUNK_SIZE == 2
\* Largest total a layer's count request reports.
MaxTotal == 3
\* Number of names in layer_names.
NumLayers == 2
\* Number of times the script is run over the same output directory.
MaxRuns == 2
\* Bounds of the stand-alone check of fetch_features_with_retry.
MaxCount == 30
MaxMinChunk == 2
MaxStart == 1
\* Largest number of failed requests (timeout, empty, other) once upstream
\* has answered a request; an upstream that never answers is not limited.
MaxFaults == 2

FORCE_OVERWRITE == FALSE

VARIABLES
    \* fetch_features_with_retry
    stack,          \* call stack of fetch_features_with_retry, outermost first
    min_chunk,      \* the min_chunk argument
    features,       \* what the outermost call returned
    requested,      \* the count argument of the outermost call
    calls,          \* fetch_features calls made by the outermost call so far
    timeouts,       \* ... of which raised Timeout
    failures,       \* ... of which returned no features or failed otherwise
    outcome,        \* how the latest fetch_features call ended
    \* process_layer
    pc,             \* where the program is
    count,          \* get_feature_count's result (upstream's total)
    count_response, \* what the count request came back with
    start,          \* loop variable of the window loop
    tmp_files,      \* list of temp files written, each <<start, features>>
    total_fetched,
    missing_chunks, \* list of (start, url): the url's startIndex and count
    mi,             \* index in tmp_files of the merge loop
    gdfs,           \* frames read back, in order
    ret,            \* how process_layer ended
    \* history of one process_layer call
    fetches,        \* fetch_features calls
    windows,        \* window starts fetch_features_with_retry was called for
    exhausted,      \* window starts whose every request timed out
    direct,         \* window starts whose first request returned records
    checked,        \* check_existing_geopackage was called
    sinkWrites,     \* to_file calls
    reported,       \* the "missing chunks" report was logged
    \* file system
    temp_dir,       \* starts of the chunk files present in TEMP_DIR
    gpkg,           \* per layer: the GeoPackage in OUTPUT_DIR
    \* driver
    run, li, started

vars == <<stack, min_chunk, features, requested, calls, timeouts, failures, pc, count,
          start, tmp_files, total_fetched, missing_chunks, mi, gdfs, ret,
          fetches, windows, exhausted, direct, checked, sinkWrites, temp_dir, gpkg,
          run, li, started, outcome, count_response, reported>>

fetchVars == <<stack, features, requested, calls, timeouts, failures, outcome>>
layerVars == <<count, start, tmp_files, total_fetched, missing_chunks, mi,
               gdfs, ret, windows, exhausted, direct, checked, sinkWrites,
               count_response, reported>>

Min(a, b) == IF a < b THEN a ELSE b
Max(a, b) == IF a > b THEN a ELSE b

\* The offsets a, a+1, ..., b-1 in ascending order.
Range(a, b) == [i \in 1..Max(b - a, 0) |-> a + i - 1]

RECURSIVE Concat(_)
Concat(ss) == IF ss = <<>> THEN <<>> ELSE Head(ss) \o Concat(Tail(ss))

Elems(s) == {s[i] : i \in 1..Len(s)}

\* A layer's GeoPackage in OUTPUT_DIR: not there, there but gpd.read_file
\* raises on it, or holding n records.
Missing == [state |-> "missing", n |-> 0]
Unreadable == [state |-> "unreadable", n |-> 0]
Holding(n) == [state |-> "ok", n |-> n]

\* No count request has been made yet.
NoResponse == [kind |-> "none", n |-> 0]

\* ------------------------------------------------------------- Transport
Outcomes == {"records", "empty", "timeout", "other"}

\* What upstream, holding `total` records sorted by objectid, returns for
\* startIndex=start_index&count=cnt.
Page(start_index, cnt, total) == Range(start_index, Min(start_index + cnt, total))

fetch_features_reraise(start_index, cnt, total, o) ==
    CASE o = "records" -> [kind |-> "json", features |-> Page(start_index, cnt, total)]
      [] o = "empty"   -> [kind |-> "json", features |-> <<>>]
      [] OTHER         -> [kind |-> "Timeout", features |-> <<>>]

\* fetch_features: the parsed JSON, a Timeout re-raised, or None.
fetch_features(start_index, cnt, total, o) ==
    CASE o = "records" -> [kind |-> "json", features |-> Page(start_index, cnt, total)]
      [] o = "empty"   -> [kind |-> "json", features |-> <<>>]
      [] o = "timeout" -> [kind |-> "Timeout", features |-> <<>>]
      [] OTHER         -> [kind |-> "None", features |-> <<>>]

\* ------------------------------------------- fetch_features_with_retry
\* One activation of fetch_features_with_retry(start_index, count).  While it
\* loops over its sub-windows, sub_start is the sub-window being fetched and
\* features the records extended so far.
Call(start_index, cnt) ==
    [start_index |-> start_index, count |-> cnt,
     sub_start |-> start_index, features |-> <<>>]

AtFloorStrict(cnt, mc) == cnt < mc

\* "if count <= min_chunk": the floor, no further split.
AtFloor(cnt, mc) == cnt <= mc

small_count_half(cnt, mc) == Max(cnt \div 2, mc)

small_count_ceil(cnt, mc) == Max((cnt + 9) \div 10, mc)

\* small_count = max(int(count * 0.1), min_chunk)
small_count(cnt, mc) == Max(cnt \div 10, mc)

sub_count_full(small, start_index, cnt, sub_start) == small

\* sub_count = min(small_count, start_index + count - sub_start)
sub_count(small, start_index, cnt, sub_start) ==
    Min(small, start_index + cnt - sub_start)

\* The next value of range(start_index, start_index + count, small_count).
next_sub_start(sub_start, small) == sub_start + small

extend_front(feats, sub_features) == sub_features \o feats

\* features.extend(sub_features)
extend(feats, sub_features) == feats \o sub_features

\* What the try block returns for a response that is no Timeout:
\* data["features"] when present and non-empty, else [].
returned(resp) == IF resp.kind = "json" THEN resp.features ELSE <<>>

\* A call returned r to the activations stk that wait for it: the innermost
\* extends its features and calls the next sub-window, or, past the last
\* sub-window, returns its features in turn.
RECURSIVE Deliver(_, _, _)
Deliver(stk, r, mc) ==
    IF stk = <<>>
    THEN [stack |-> <<>>, done |-> TRUE, result |-> r]
    ELSE LET f     == stk[Len(stk)]
             rest  == SubSeq(stk, 1, Len(stk) - 1)
             feats == extend(f.features, r)
             small == small_count(f.count, mc)
             nxt   == next_sub_start(f.sub_start, small)
         IN IF nxt < f.start_index + f.count
            THEN [stack |-> Append(Append(rest,
                                [f EXCEPT !.features = feats, !.sub_start = nxt]),
                                Call(nxt, sub_count(small, f.start_index, f.count, nxt))),
                  done |-> FALSE, result |-> <<>>]
            ELSE Deliver(rest, feats, mc)

\* The innermost activation got resp from fetch_features: up to its next
\* fetch_features call, or to the return of the outermost activation.
Retry(stk, resp, mc) ==
    LET f    == stk[Len(stk)]
        rest == SubSeq(stk, 1, Len(stk) - 1)
    IN IF resp.kind = "Timeout" /\ ~AtFloor(f.count, mc)
       THEN LET small == small_count(f.count, mc)
            IN [stack |-> Append(Append(rest, f),
                                 Call(f.start_index,
                                      sub_count(small, f.start_index, f.count, f.start_index))),
                done |-> FALSE, result |-> <<>>]
       ELSE Deliver(rest, returned(resp), mc)

\* One fetch_features call of fetch_features_with_retry, with outcome o.
\* fetch_features_with_retry catches every exception of its try block, so no
\* call of it raises: the handlers around the recursive call (lines 105-112)
\* and around the call in process_layer (lines 151-160) have nothing to catch.
fetch_features_with_retry(o) ==
    /\ pc = "fetch"
    /\ LET f    == stack[Len(stack)]
           resp == fetch_features(f.start_index, f.count, count, o)
           r    == Retry(stack, resp, min_chunk)
       IN /\ stack' = r.stack
          /\ IF r.done
             THEN pc' = "fetched" /\ features' = r.result
             ELSE UNCHANGED <<pc, features>>
          /\ timeouts' = IF resp.kind = "Timeout" THEN timeouts + 1 ELSE timeouts
          /\ failures' = IF resp.kind # "Timeout" /\ returned(resp) = <<>>
                         THEN failures + 1 ELSE failures
    /\ outcome' = o
    /\ calls' = calls + 1
    /\ fetches' = fetches + 1
    /\ UNCHANGED <<count_response, reported>>
    /\ UNCHANGED <<min_chunk, requested, count, start, tmp_files,
                   total_fetched, missing_chunks, mi, gdfs, ret, windows,
                   exhausted, direct, checked, sinkWrites, temp_dir, gpkg, run,
                   li, started>>

\* ----------------------------------- fetch_features_with_retry on its own
\* fetch_features_with_retry(layer, start_index, count, min_chunk) called for
\* any window and floor, against an upstream that holds the whole window.
InitFetch ==
    /\ \E s \in 0..MaxStart, c \in 1..MaxCount :
          /\ stack = <<Call(s, c)>>
          /\ requested = c
          /\ count = s + c
          /\ start = s
    /\ min_chunk \in 1..MaxMinChunk
    /\ features = <<>> /\ calls = 0 /\ timeouts = 0 /\ failures = 0
    /\ pc = "fetch"
    /\ tmp_files = <<>> /\ total_fetched = 0 /\ missing_chunks = <<>>
    /\ mi = 1 /\ gdfs = <<>> /\ ret = "none"
    /\ fetches = 0 /\ windows = <<>> /\ exhausted = {} /\ direct = {}
    /\ checked = FALSE /\ sinkWrites = 0 /\ temp_dir = {}
    /\ gpkg = [l \in 1..NumLayers |-> Missing]
    /\ run = 1 /\ li = 1 /\ started = <<>>
    /\ outcome = "none" /\ count_response = NoResponse /\ reported = FALSE

\* Upstream fails a bounded number of requests, or answers none at all.
Allowed(o) ==
    \/ o = "records"
    \/ timeouts + failures < MaxFaults
    \/ o = "timeout" /\ calls = timeouts

NextFetch == \E o \in Outcomes : Allowed(o) /\ fetch_features_with_retry(o)

SpecFetch == InitFetch /\ [][NextFetch]_vars

\* ------------------------------------------------------ get_feature_count
\* The count request fails, its answer carries no numberMatched (or one that
\* is no number), or it carries numberMatched = n.
CountResponses ==
    {[kind |-> "error", n |-> 0], [kind |-> "absent", n |-> 0]}
        \cup {[kind |-> "ok", n |-> n] : n \in 0..MaxTotal}

get_feature_count_absent(resp) ==
    IF resp.kind = "ok" THEN resp.n ELSE IF resp.kind = "absent" THEN -1 ELSE 0

get_feature_count(resp) == IF resp.kind = "ok" THEN resp.n ELSE 0

\* ----------------------------------------------- check_existing_geopackage
check_existing_mismatch(file, expected_count) ==
    IF file.state = "missing" THEN FALSE
    ELSE IF file.state = "unreadable" THEN FALSE
    ELSE file.n # expected_count

check_existing_read_error(file, expected_count) ==
    IF file.state = "missing" THEN FALSE
    ELSE IF file.state = "unreadable" THEN TRUE
    ELSE file.n = expected_count

check_existing_geopackage(file, expected_count) ==
    IF file.state = "missing" THEN FALSE
    ELSE IF file.state = "unreadable" THEN FALSE
    ELSE file.n = expected_count

\* ---------------------------------------------------------- process_layer
\* The locals of process_layer and the history of one call, as they are on
\* entry.
ResetFetch ==
    /\ stack' = <<>> /\ features' = <<>> /\ requested' = 0
    /\ calls' = 0 /\ timeouts' = 0 /\ failures' = 0

ResetLayer ==
    /\ count' = 0 /\ start' = 0 /\ tmp_files' = <<>> /\ total_fetched' = 0
    /\ missing_chunks' = <<>> /\ mi' = 1 /\ gdfs' = <<>> /\ ret' = "none"
    /\ fetches' = 0 /\ windows' = <<>> /\ exhausted' = {} /\ direct' = {}
    /\ checked' = FALSE /\ sinkWrites' = 0 /\ temp_dir' = {}
    /\ count_response' = NoResponse /\ reported' = FALSE

AfterMerge_save(g) == pc' = "save" /\ ret' = ret

\* "if not gdfs: return", else on to pd.concat and to_file.
AfterMerge(g) ==
    IF g = <<>>
    THEN pc' = "returned" /\ ret' = "no_valid"
    ELSE pc' = "save" /\ ret' = ret

next_start_skip(s) == s + CHUNK_SIZE + 1

next_start_double(s) == s + 2 * CHUNK_SIZE

\* The step of range(0, count, CHUNK_SIZE).
next_start(s) == s + CHUNK_SIZE

on_missing_break(s, total) == total

\* "missing_chunks.append((start, url)); continue": on to the next window.
on_missing(s, total) == next_start(s)

nothing_to_fetch_negative(c) == c < 0

\* "if count == 0: ... return"
nothing_to_fetch(c) == c = 0

\* The head of "for start in range(0, count, CHUNK_SIZE)" with start = s:
\* the call of fetch_features_with_retry(layer_name, s, CHUNK_SIZE), or,
\* past the last window, the merge loop over tmp_files t.
Window(s, t) ==
    /\ start' = s
    /\ IF s < count'
       THEN /\ stack' = <<Call(s, CHUNK_SIZE)>>
            /\ requested' = CHUNK_SIZE
            /\ features' = <<>>
            /\ calls' = 0 /\ timeouts' = 0 /\ failures' = 0
            /\ outcome' = "none"
            /\ windows' = Append(windows, s)
            /\ pc' = "fetch" /\ ret' = ret
       ELSE /\ ResetFetch
            /\ outcome' = outcome
            /\ windows' = windows
            /\ IF t = <<>> THEN AfterMerge(<<>>) ELSE pc' = "merge" /\ ret' = ret

\* Lines 133-139: the count request and the "nothing to fetch" return.
CountLayer ==
    /\ pc = "count"
    /\ \E resp \in CountResponses :
          /\ count_response' = resp
          /\ count' = get_feature_count(resp)
          /\ IF nothing_to_fetch(count')
             THEN /\ pc' = "returned" /\ ret' = "nothing"
                  /\ UNCHANGED <<start, windows, fetchVars>>
             ELSE IF FORCE_OVERWRITE
                  THEN Window(0, <<>>)
                  ELSE /\ pc' = "check" /\ ret' = ret
                       /\ UNCHANGED <<start, windows, fetchVars>>
    /\ UNCHANGED <<min_chunk, tmp_files, total_fetched, missing_chunks, mi,
                   gdfs, fetches, exhausted, direct, checked, sinkWrites,
                   temp_dir, gpkg, run, li, started, reported>>

\* Lines 141-146: the existing-output check, then the first window.
CheckExisting ==
    /\ pc = "check"
    /\ checked' = TRUE
    /\ count' = count
    /\ IF check_existing_geopackage(gpkg[li], count)
       THEN /\ pc' = "returned" /\ ret' = "skipped"
            /\ UNCHANGED <<start, windows, fetchVars>>
       ELSE Window(0, <<>>)
    /\ UNCHANGED <<min_chunk, tmp_files, total_fetched, missing_chunks, mi,
                   gdfs, fetches, exhausted, direct, sinkWrites, temp_dir,
                   gpkg, run, li, started, count_response, reported>>

\* Lines 162-187: the rest of the loop body once fetch_features_with_retry
\* has returned: an empty window is recorded in missing_chunks, any other
\* is written to its temp file (w: "ok", or open or write raising).
TmpWrites == {"ok", "open_raises", "write_raises"}

missing_chunk_rest(s) == [start |-> s, count |-> Min(CHUNK_SIZE, count - s)]

\* The (start, url) appended to missing_chunks: the url asks for
\* count=CHUNK_SIZE from startIndex=start.
missing_chunk(s) == [start |-> s, count |-> CHUNK_SIZE]

LoopBody(w) ==
    /\ pc = "fetched"
    /\ count' = count
    /\ exhausted' = IF calls = timeouts THEN exhausted \cup {start} ELSE exhausted
    /\ direct' = IF calls = 1 /\ features # <<>> THEN direct \cup {start} ELSE direct
    /\ IF features = <<>>
       THEN /\ w = "ok"
            /\ missing_chunks' = Append(missing_chunks, missing_chunk(start))
            /\ UNCHANGED <<tmp_files, total_fetched, temp_dir>>
            /\ Window(on_missing(start, count), tmp_files)
       ELSE IF w = "ok"
       THEN /\ tmp_files' = Append(tmp_files, [start |-> start, features |-> features])
            /\ temp_dir' = temp_dir \cup {start}
            /\ total_fetched' = total_fetched + Len(features)
            /\ missing_chunks' = missing_chunks
            /\ Window(next_start(start), tmp_files')
       ELSE /\ temp_dir' = IF w = "write_raises" THEN temp_dir \cup {start} ELSE temp_dir
            /\ pc' = "raised" /\ ret' = "tmp_write"
            /\ UNCHANGED <<tmp_files, total_fetched, missing_chunks, start,
                           windows, fetchVars>>
    /\ UNCHANGED <<min_chunk, mi, gdfs, fetches, checked, sinkWrites, gpkg,
                   run, li, started, count_response, reported>>

\* Lines 191-202: one pass of the merge loop; gpd.read_file returns the
\* frame (ok) or raises, and the file is removed either way.
Merge(ok) ==
    /\ pc = "merge"
    /\ LET path == tmp_files[mi]
       IN /\ gdfs' = IF ok THEN Append(gdfs, path.features) ELSE gdfs
          /\ temp_dir' = temp_dir \ {path.start}
    /\ mi' = mi + 1
    /\ IF mi = Len(tmp_files)
       THEN AfterMerge(gdfs')
       ELSE pc' = "merge" /\ ret' = ret
    /\ UNCHANGED <<min_chunk, count, start, tmp_files, total_fetched,
                   missing_chunks, fetches, windows, exhausted, direct,
                   checked, sinkWrites, gpkg, run, li, started, fetchVars,
                   count_response, reported>>

\* pd.concat(gdfs, ignore_index=True)
combined == Concat(gdfs)

\* Lines 204-214: to_file writes the combined frame (ok), or raises and
\* leaves the file as it was or half-written.
SinkWrites == {"ok", "raises", "raises_partial"}

\* "if missing_chunks:" logs the report of the windows left unresolved.
report(missing) == missing # <<>>

Save(w) ==
    /\ pc = "save"
    /\ sinkWrites' = sinkWrites + 1
    /\ gpkg' = [gpkg EXCEPT ![li] = CASE w = "ok" -> Holding(Len(combined))
                                      [] w = "raises_partial" -> Unreadable
                                      [] OTHER -> @]
    /\ IF w = "ok"
       THEN pc' = "returned" /\ ret' = "saved" /\ reported' = report(missing_chunks)
       ELSE pc' = "raised" /\ ret' = "sink_write" /\ reported' = reported
    /\ UNCHANGED <<min_chunk, count, start, tmp_files, total_fetched,
                   missing_chunks, mi, gdfs, fetches, windows, exhausted,
                   direct, checked, temp_dir, run, li, started, fetchVars,
                   count_response>>

\* ------------------------------------------------------------- __main__
layer_names == [i \in 1..NumLayers |-> i]

\* "for lyr in layer_names: try: process_layer(lyr)"
CallProcessLayer ==
    /\ pc = "driver"
    /\ li <= Len(layer_names)
    /\ started' = Append(started, layer_names[li])
    /\ pc' = "count"
    /\ UNCHANGED <<min_chunk, run, li, gpkg, fetchVars, layerVars, fetches, temp_dir>>

CaughtNothing(p) == p = "returned"

\* process_layer returned, or raised into "except Exception": the loop
\* goes on to the next layer.
Caught(p) == p \in {"returned", "raised"}

NextLayer ==
    /\ Caught(pc)
    /\ li' = li + 1
    /\ pc' = "driver"
    /\ ResetFetch /\ ResetLayer
    /\ outcome' = "none"
    /\ UNCHANGED <<min_chunk, run, gpkg, started>>

\* The script is run again over the same OUTPUT_DIR.
RunAgain ==
    /\ pc = "driver"
    /\ li > Len(layer_names)
    /\ run < MaxRuns
    /\ run' = run + 1
    /\ li' = 1
    /\ started' = <<>>
    /\ UNCHANGED <<min_chunk, pc, gpkg, fetchVars, layerVars, fetches, temp_dir>>

Init ==
    /\ stack = <<>> /\ min_chunk = 1 /\ features = <<>> /\ requested = 0
    /\ calls = 0 /\ timeouts = 0 /\ failures = 0
    /\ pc = "driver"
    /\ count = 0 /\ start = 0 /\ tmp_files = <<>> /\ total_fetched = 0
    /\ missing_chunks = <<>> /\ mi = 1 /\ gdfs = <<>> /\ ret = "none"
    /\ fetches = 0 /\ windows = <<>> /\ exhausted = {} /\ direct = {}
    /\ checked = FALSE /\ sinkWrites = 0 /\ temp_dir = {}
    /\ gpkg = [l \in 1..NumLayers |-> Missing]
    /\ run = 1 /\ li = 1 /\ started = <<>>
    /\ outcome = "none" /\ count_response = NoResponse /\ reported = FALSE

\* One run of the script.
Run ==
    \/ CallProcessLayer
    \/ CountLayer
    \/ CheckExisting
    \/ \E o \in Outcomes : fetch_features_with_retry(o)
    \/ \E w \in TmpWrites : LoopBody(w)
    \/ \E ok \in BOOLEAN : Merge(ok)
    \/ \E w \in SinkWrites : Save(w)
    \/ NextLayer

Next == Run \/ RunAgain

Spec == Init /\ [][Next]_vars

\* =================================================================== claims
\* The starts of range(0, count, CHUNK_SIZE).
WindowStarts == {s \in 0..(count - 1) : s % CHUNK_SIZE = 0}

\* process_layer is past its window loop.
LoopDone ==
    \/ pc \in {"merge", "save"}
    \/ pc \in {"returned", "raised"} /\ ret \in {"no_valid", "saved", "sink_write"}

\* The offsets of the records written to the temp files.
Collected == UNION {Elems(tmp_files[i].features) : i \in 1..Len(tmp_files)}

\* The offsets of the ranges missing_chunks reports: start, count=CHUNK_SIZE.
Unresolved ==
    {o \in 0..(count + CHUNK_SIZE) :
        \E i \in 1..Len(missing_chunks) :
            /\ missing_chunks[i].start <= o
            /\ o < missing_chunks[i].start + missing_chunks[i].count}

\* C1: once the window loop of process_layer is over, every offset of
\* [0, count) is the offset of a collected record or lies in a range recorded
\* in missing_chunks, whatever the outcomes of the requests were.
C1_NoOffsetSilentlyDropped ==
    LoopDone => \A o \in 0..(count - 1) : o \in Collected \/ o \in Unresolved

\* C2: with FORCE_OVERWRITE false, a process_layer call that finds the
\* layer's GeoPackage holding exactly count records makes no fetch_features
\* call and no to_file call, and returns at the existing-output check.
C2_IdempotentSkip ==
    (/\ ~FORCE_OVERWRITE
     /\ pc \notin {"driver", "count"}
     /\ ret \notin {"saved", "sink_write"}
     /\ gpkg[li] = Holding(count))
        => /\ fetches = 0 /\ windows = <<>> /\ stack = <<>>
           /\ sinkWrites = 0
           /\ pc \in {"check", "returned"}
           /\ pc = "returned" => ret \in {"skipped", "nothing"}

\* C2 witness: a second run skips a layer whose first run saved every record.
C2_Witness ==
    /\ run = 2 /\ pc = "returned" /\ ret = "skipped"
    /\ count > CHUNK_SIZE /\ gpkg[li] = Holding(count) /\ fetches = 0

\* fetch_features_with_retry runs on: every fetch_features call returns (the
\* GET has a 60 s timeout) and the caller goes on with what it got.
SpecFetchFair == SpecFetch /\ WF_vars(NextFetch)

\* Every activation works on a window strictly smaller than its caller's.
StrictlySmaller ==
    \A i \in 1..(Len(stack) - 1) : stack[i + 1].count < stack[i].count

\* Only a window above the floor has been split into sub-windows.
NoSplitAtFloor ==
    \A i \in 1..(Len(stack) - 1) : stack[i].count > min_chunk

\* C3: fetch_features_with_retry returns after finitely many fetch_features
\* calls (fewer than twice the window's size) whatever the requests answer,
\* also when all time out; every sub-window is strictly smaller than the
\* window it is cut from and a window of count <= min_chunk is never split.
C3_ShrinkTerminates ==
    /\ [](StrictlySmaller /\ NoSplitAtFloor /\ calls <= 2 * requested - 1)
    /\ <>(pc = "fetched")

\* C3 witness: a window that needed two levels of shrinking returned after
\* every one of its requests had timed out.
C3_Witness ==
    /\ pc = "fetched" /\ stack = <<>>
    /\ calls = timeouts /\ calls > requested + 1
    /\ features = <<>>

IsAscending(s) == \A i \in 1..(Len(s) - 1) : s[i] < s[i + 1]

\* The records of the temp files, in tmp_files order.
Fetched == Concat([i \in 1..Len(tmp_files) |-> tmp_files[i].features])

\* C4: the records assembled for a layer are in ascending offset order: in
\* every activation of fetch_features_with_retry the records extended so far
\* are ascending and come from the sub-windows before the one being fetched,
\* what a window returns is ascending and lies in the window, and the temp
\* files, the frames read back and the combined frame keep that order.
C4_AscendingOrder ==
    /\ \A i \in 1..Len(stack) :
          /\ IsAscending(stack[i].features)
          /\ \A r \in Elems(stack[i].features) :
                stack[i].start_index <= r /\ r < stack[i].sub_start
    /\ IsAscending(features)
    /\ \A r \in Elems(features) : start <= r /\ r < start + requested
    /\ \A i \in 1..Len(tmp_files) :
          \A r \in Elems(tmp_files[i].features) :
              tmp_files[i].start <= r /\ r < tmp_files[i].start + CHUNK_SIZE
    /\ IsAscending(Fetched)
    /\ IsAscending(combined)

\* C4 witness: two windows, at least one of them fetched in sub-windows, all
\* of whose records are about to be written.
C4_Witness ==
    /\ pc = "save" /\ Len(gdfs) >= 2
    /\ fetches > Len(windows)
    /\ Len(combined) = count

CeilDiv(a, b) == (a + b - 1) \div b

\* C5: when the window loop is over and every window request was answered
\* at once with the records upstream holds for it, process_layer has made
\* exactly ceil(count / CHUNK_SIZE) fetch_features calls, has collected the
\* count records of the layer and missing_chunks is empty.
C5_CompleteDownload ==
    (LoopDone /\ Elems(windows) = direct)
        => /\ fetches = CeilDiv(count, CHUNK_SIZE)
           /\ total_fetched = count
           /\ Fetched = Range(0, count)
           /\ missing_chunks = <<>>

\* C5 witness: a layer of several windows, the last one shorter than
\* CHUNK_SIZE, all answered at once.
C5_Witness ==
    /\ LoopDone /\ Elems(windows) = direct
    /\ count > CHUNK_SIZE /\ count % CHUNK_SIZE # 0
    /\ total_fetched = count

\* The number of offsets of [0, count) in the window that starts at s.
Span(s) == Min(CHUNK_SIZE, count - s)

\* C6: a window whose every request timed out, down to min_chunk, comes back
\* empty and is recorded in missing_chunks; the window loop still calls
\* fetch_features_with_retry for every later window; and when that window is
\* the only one that failed, the records collected fall short of count by
\* that window's span, and they are what a successful to_file persists.
C6_ExhaustedWindowDoesNotAbort ==
    /\ (pc = "fetched" /\ calls = timeouts) => features = <<>>
    /\ \A e \in exhausted :
          /\ missing_chunk(e) \in Elems(missing_chunks)
          /\ LoopDone =>
                \A s \in WindowStarts : s > e => s \in Elems(windows)
          /\ (LoopDone /\ exhausted = {e} /\ direct \cup {e} = WindowStarts) =>
                /\ count - total_fetched = Span(e)
                /\ Span(e) <= CHUNK_SIZE
                /\ Collected = (0..(count - 1)) \ (e..(e + Span(e) - 1))
                /\ (ret = "saved" /\ Len(gdfs) = Len(tmp_files)) =>
                      gpkg[li] = Holding(count - Span(e))

\* C6 witness: the first window was exhausted, the later one was fetched
\* and its records were saved.
C6_Witness ==
    /\ pc = "returned" /\ ret = "saved"
    /\ exhausted = {0} /\ direct = {CHUNK_SIZE}
    /\ missing_chunks = <<missing_chunk(0)>>
    /\ gpkg[li] = Holding(count - CHUNK_SIZE)

\* One run of the script, which runs on: every blocking call returns.
SpecFair == Init /\ [][Run]_vars /\ WF_vars(Run)

IsPrefix(a, b) == Len(a) <= Len(b) /\ \A i \in 1..Len(a) : a[i] = b[i]

\* C7: whatever happens inside process_layer, a return or an exception,
\* the driver starts process_layer for the layers of layer_names in list
\* order, each once, and every run gets to the last layer.
C7_EveryLayerStarted ==
    /\ [](IsPrefix(started, layer_names))
    /\ (pc = "driver" /\ li = 1) ~> (started = layer_names)

\* C7 witness: the to_file of the first layer raised, and the last layer
\* was started all the same.
C7_Witness ==
    /\ run = 1 /\ gpkg[1] = Unreadable
    /\ started = layer_names /\ li = Len(layer_names) /\ pc = "count"

\* C8: when get_feature_count returns 0, process_layer returns normally
\* without a fetch_features call, without calling
\* check_existing_geopackage and without a temp file or a to_file call.
C8_NothingToFetch ==
    (pc \notin {"driver", "count"} /\ count = 0)
        => /\ pc = "returned" /\ ret = "nothing"
           /\ fetches = 0 /\ windows = <<>> /\ stack = <<>>
           /\ ~checked
           /\ sinkWrites = 0 /\ tmp_files = <<>> /\ temp_dir = {}

\* C8 witness: a layer that has a GeoPackage from the first run is counted
\* as 0 in the second.
C8_Witness ==
    /\ run = 2 /\ pc = "returned" /\ ret = "nothing"
    /\ gpkg[li].state = "ok"

\* C9: when the request for the whole window timed out and every sub-window
\* request then returned its records, fetch_features_with_retry has made
\* 1 + ceil(count / small_count) fetch_features calls, with small_count =
\* max(floor(count / 10), min_chunk), and returns the records of the whole
\* window in order; they are not empty, so that process_layer does not put
\* the window in missing_chunks.
C9_CallsAfterOneShrink ==
    (pc = "fetched" /\ timeouts = 1 /\ failures = 0 /\ calls > 1)
        => LET tenth == requested \div 10
               small == IF tenth > min_chunk THEN tenth ELSE min_chunk
           IN /\ calls = 1 + CeilDiv(requested, small)
              /\ features = Range(start, Min(start + requested, count))
              /\ features # <<>>

\* C9 witness: a window of 20 fetched in 1 + 10 calls.
C9_Witness ==
    /\ pc = "fetched" /\ timeouts = 1 /\ failures = 0
    /\ requested = 20 /\ min_chunk = 1 /\ calls = 11
    /\ Len(features) = 20

\* C10: the frame handed to to_file has as many records as the windows
\* returned (total_fetched), whatever the requests and the reads of the
\* temp files gave.
C10_SinkGetsAllFetched ==
    pc = "save" => Len(combined) = total_fetched

\* C11: check_existing_geopackage answers true exactly when the layer's
\* GeoPackage is there, can be read and holds exactly the expected count:
\* then the layer is skipped.  A missing file, another count or a read error
\* answers false without raising, and the download starts at window 0.
C11_ExistingOutputCheck ==
    (checked /\ sinkWrites = 0) =>
        /\ (pc = "returned" /\ ret = "skipped")
               <=> (gpkg[li].state = "ok" /\ gpkg[li].n = count)
        /\ ret # "skipped" => (windows # <<>> /\ windows[1] = 0)
        /\ fetches = 0 => pc \in {"returned", "fetch"}

\* C11 witness: the check has just met a file it cannot read and the first
\* window is about to be requested.
C11_Witness ==
    /\ checked /\ gpkg[li] = Unreadable /\ count > 0
    /\ pc = "fetch" /\ fetches = 0 /\ windows = <<0>>

\* C12: get_feature_count returns the total upstream reports, and 0 when the
\* request fails or the answer carries no usable total; it never raises, and
\* on 0 process_layer returns at once with nothing requested or written.
C12_CountNeverRaises ==
    pc \notin {"driver", "count"} =>
        /\ count_response.kind = "ok" => count = count_response.n
        /\ count_response.kind \in {"error", "absent"} =>
              /\ count = 0
              /\ pc = "returned" /\ ret = "nothing"
              /\ fetches = 0 /\ windows = <<>> /\ ~checked /\ sinkWrites = 0

\* C12 witness: the answer had no numberMatched and the layer, which has a
\* GeoPackage from the run before, is left alone.
C12_Witness ==
    /\ count_response.kind = "absent" /\ pc = "returned" /\ ret = "nothing"
    /\ gpkg[li].state = "ok" /\ gpkg[li].n > 0

IsSuffix(a, b) ==
    Len(a) <= Len(b) /\ SubSeq(b, Len(b) - Len(a) + 1, Len(b)) = a

\* C13: each step is exactly one fetch_features call for the innermost
\* window.  Sub-window requests for that window follow if and only if the
\* call timed out and the window is larger than min_chunk.  In every other
\* case (records, an empty page, an error that is no timeout, a timeout at
\* the floor) the window is finished by this one call: its result, the
\* page's records or nothing, is handed to the caller and the next request,
\* if any, is for offsets at or after the window's end.
C13_ShrinkOnlyOnTimeout ==
    [][pc = "fetch" =>
        LET n      == Len(stack)
            f      == stack[n]
            shrink == Len(stack') = n + 1
            result == IF outcome' = "records"
                      THEN Page(f.start_index, f.count, count) ELSE <<>>
        IN /\ calls' = calls + 1
           /\ shrink <=> (outcome' = "timeout" /\ f.count > min_chunk)
           /\ shrink =>
                 /\ stack'[n] = f
                 /\ stack'[n + 1].start_index = f.start_index
                 /\ stack'[n + 1].count < f.count
           /\ ~shrink =>
                 /\ Len(stack') <= n
                 /\ IF pc' = "fetched"
                    THEN stack' = <<>> /\ IsSuffix(result, features')
                    ELSE /\ IsSuffix(result, stack'[Len(stack') - 1].features)
                         /\ stack'[Len(stack')].start_index
                                >= f.start_index + f.count
    ]_vars

\* C13 witness: a window ten times the floor or more met an error that is
\* no timeout, and the call returned nothing after that one request.
C13_Witness ==
    /\ pc = "fetched" /\ outcome = "other" /\ calls = 1
    /\ requested >= 10 * min_chunk /\ features = <<>>

\* The sub-window size the claim gives for a window of cnt records.
TenthOrFloor(cnt) ==
    LET tenth == cnt \div 10 IN IF tenth > min_chunk THEN tenth ELSE min_chunk

\* C14: the sub-windows requested for a window that timed out partition it.
\* The first starts at the window's start, each next one where the one
\* before ended, and the window is finished only when a sub-window ended at
\* the window's end.  Every sub-window has TenthOrFloor records except the
\* last, which is cut at the window's end, and none is empty.
C14_SubWindowPartition ==
    /\ [](\A i \in 1..(Len(stack) - 1) :
            LET p == stack[i]
                c == stack[i + 1]
                small == TenthOrFloor(p.count)
                end == p.start_index + p.count
            IN /\ c.start_index = p.sub_start
               /\ (c.start_index - p.start_index) % small = 0
               /\ p.start_index <= c.start_index /\ c.start_index < end
               /\ c.count = (IF end - c.start_index < small
                             THEN end - c.start_index ELSE small)
               /\ c.count >= 1)
    /\ [][pc = "fetch" =>
          LET n == Len(stack)
              m == Len(stack')
              Ends(i) == stack[i].start_index + stack[i].count
          IN IF m = n + 1
             THEN stack'[m].start_index = stack[n].start_index
             ELSE /\ \A i \in (IF pc' = "fetched" THEN 1 ELSE m)..(n - 1) :
                        Ends(i + 1) = Ends(i)
                  /\ pc' # "fetched" => stack'[m].start_index = Ends(m)
       ]_vars

\* C14 witness: the last sub-window of a window of 25 with sub-windows of 2
\* is requested with count 1, the twelve before it having returned theirs.
C14_Witness ==
    /\ pc = "fetch" /\ Len(stack) = 2
    /\ stack[1].count = 25 /\ TenthOrFloor(25) = 2
    /\ stack[2].count = 1
    /\ stack[2].start_index + 1 = stack[1].start_index + 25
    /\ Len(stack[1].features) = 24

\* C15: the windows process_layer requests start at 0, CHUNK_SIZE,
\* 2*CHUNK_SIZE, ... below the total, and every request made for them, the
\* last window's and the sub-windows' too, ends at or before the total.
C15_RequestsWithinTotal ==
    /\ \A i \in 1..Len(windows) :
          windows[i] = (i - 1) * CHUNK_SIZE /\ windows[i] < count
    /\ \A i \in 1..Len(stack) :
          stack[i].start_index + stack[i].count <= count

\* C16: to_file is called at most once in a process_layer call, and only
\* when the window loop is over: every window of the layer has been
\* requested and the last fetch_features_with_retry call has returned.  No
\* fetch_features call follows a to_file call, and the calls are made one
\* at a time, each step of the loop being one blocking call.
C16_SinkWrittenOnceAfterLastFetch ==
    /\ [](/\ sinkWrites <= 1
          /\ (pc = "save" \/ sinkWrites = 1) =>
                /\ stack = <<>>
                /\ Elems(windows) = WindowStarts
                /\ start + CHUNK_SIZE >= count
          /\ pc \in {"fetch", "fetched", "merge"} => sinkWrites = 0)
    /\ [][/\ sinkWrites' = sinkWrites + 1 =>
                pc = "save" /\ fetches' = fetches /\ stack' = <<>>
          /\ fetches' > fetches =>
                pc = "fetch" /\ fetches' = fetches + 1 /\ sinkWrites' = 0
       ]_vars

\* C16 witness: a layer of two windows, one of them fetched in sub-windows,
\* has been written, by the one to_file call.
C16_Witness ==
    /\ pc = "returned" /\ ret = "saved" /\ sinkWrites = 1
    /\ Len(windows) = 2 /\ fetches > 2 /\ gpkg[li].state = "ok"

\* C17: when process_layer has ended, by returning or by raising, no chunk
\* file of the layer is left in TEMP_DIR.
C17_TempFilesRemoved ==
    pc \in {"returned", "raised"} => temp_dir = {}

\* ceil(log10(c / m)) for c and m >= 1 with c / m >= 1/10: the least d >= 0
\* with m * 10^d >= c.
RECURSIVE CeilLog10(_, _)
CeilLog10(c, m) == IF c <= m THEN 0 ELSE 1 + CeilLog10(c, 10 * m)

\* C18: a sub-window has at most a tenth of the records of the window it
\* was cut from, or min_chunk if that is more, and the calls of
\* fetch_features_with_retry nest at most ceil(log10(count / min_chunk))
\* deep below the call for a window of count records.
C18_ShrinkDepthBound ==
    /\ \A i \in 1..(Len(stack) - 1) :
          stack[i + 1].count <= TenthOrFloor(stack[i].count)
    /\ stack # <<>> => stack[1].count = requested
    /\ Len(stack) - 1 <= CeilLog10(requested, min_chunk)

\* C18 witness: a window of 20 with min_chunk 1 is two levels down, at a
\* sub-window of 1 cut from a sub-window of 2.
C18_Witness ==
    /\ requested = 20 /\ min_chunk = 1 /\ CeilLog10(20, 1) = 2
    /\ Len(stack) = 3 /\ stack[2].count = 2 /\ stack[3].count = 1

\* C19: when the merge loop ends with no frame read back, because every
\* window came back empty or the read of every temp file failed,
\* process_layer returns there: to_file is not called and the report of
\* the missing chunks is not logged.  The layer's GeoPackage changes only
\* in a to_file call, so it is as it was before.
C19_NothingReadableNothingWritten ==
    /\ []((LoopDone /\ pc \in {"save", "returned", "raised"} /\ gdfs = <<>>) =>
            /\ pc = "returned" /\ ret = "no_valid"
            /\ sinkWrites = 0 /\ ~reported)
    /\ [][gpkg' # gpkg => pc = "save" /\ sinkWrites' = sinkWrites + 1]_vars

\* C19 witness: one window came back empty and the temp file of the other
\* could not be read; the GeoPackage of the run before is still there.
C19_Witness ==
    /\ pc = "returned" /\ ret = "no_valid" /\ run = 2
    /\ missing_chunks # <<>> /\ tmp_files # <<>> /\ temp_dir = {}
    /\ gpkg[li].state = "ok" /\ gpkg[li].n > 0 /\ ~reported

\* C20: a window's start is appended to missing_chunks exactly when
\* fetch_features_with_retry returned no records for it, whether its
\* requests failed or were answered with an empty page; nothing else
\* changes the list during the call.  The entries are window starts in
\* ascending order, none twice, each with count=CHUNK_SIZE in its url, the
\* last window's too.
C20_MissingChunksList ==
    /\ [](/\ \A i \in 1..Len(missing_chunks) :
                /\ missing_chunks[i].start \in Elems(windows)
                /\ missing_chunks[i].start \in WindowStarts
                /\ missing_chunks[i].count = CHUNK_SIZE
          /\ \A i \in 1..(Len(missing_chunks) - 1) :
                missing_chunks[i].start < missing_chunks[i + 1].start)
    /\ [][IF pc = "fetched" /\ features = <<>>
          THEN missing_chunks' =
                 Append(missing_chunks, [start |-> start, count |-> CHUNK_SIZE])
          ELSE missing_chunks' = missing_chunks \/ pc' = "driver"
       ]_vars

\* C20 witness: of a layer of two windows and three records, the first
\* window timed out down to the floor and the last was answered with an
\* empty page; both are listed, each with CHUNK_SIZE.
C20_Witness ==
    /\ count = CHUNK_SIZE + 1 /\ windows = <<0, CHUNK_SIZE>>
    /\ exhausted = {0} /\ outcome = "empty" /\ fetches = 4
    /\ missing_chunks = <<missing_chunk(0), missing_chunk(CHUNK_SIZE)>>
    /\ pc = "returned"

====
